---- MODULE Spec2Model ----
(***************************************************************************)
(* The /analyzing request of app.py: fetch a client's tickets, classify    *)
(* them, score them per ticket in concurrently dispatched batches, score   *)
(* them overall in sequential batches, and answer with the aggregation.    *)
(*                                                                         *)
(* Python values are modelled as tagged records:                           *)
(*   PyStr(s) a str; s is a sequence of chunks.  Where the code looks at    *)
(*            characters (title, response content, keys) every chunk is    *)
(*            one character; elsewhere a chunk is an opaque piece of text. *)
(*   PyInt(n), PyFloat(n, d) (the number n/d), PyBool(b), PyNone                   *)
(*   PyList(items), PyDict(members) with members a TLA+ record                 *)
(* A ticket record is a PyDict whose members carry the source's key names.   *)
(***************************************************************************)
EXTENDS Integers, Sequences, FiniteSets, TLC

VARIABLES
    pc,                  \* position of the request thread in analyze_ticket
    cnb_id,              \* request.form.get("cnb_id")
    status_code,         \* response.status_code of line 119; 0 while the source has not answered
    data,                \* json.loads(cleaned_text): sequence of [k, v] items in document order
    cnb_title,
    total_tickets, book_training_count, no_response_count, valid_tickets,
    batches,             \* the per-ticket batches (line 150)
    submitted,           \* number of batches handed to executor.submit so far
    future,              \* future[i]: state and outcome of the call submitted for batch i
    done_order,          \* batch indices in the order their futures finished
    finished,            \* the futures as_completed found finished when it was called
    yielded,             \* batch indices in the order as_completed yielded them
    ticket_score_data,
    overall_batches, overall_scores,
    overall_raw,         \* the oracle's text for the overall-score batch scored last
    exc,                 \* the exception propagating to the handler's except clause
    response,            \* what the handler returns
    source_calls, oracle_calls   \* calls made to the ticket source and to the oracle

vars == <<pc, cnb_id, status_code, data, cnb_title, total_tickets, book_training_count,
          no_response_count, valid_tickets, batches, submitted, future,
          done_order, finished, yielded, ticket_score_data, overall_batches,
          overall_scores, overall_raw, exc, response, source_calls, oracle_calls>>

(***************************************************************************)
(* Python values                                                           *)
(***************************************************************************)
PyStr(s) == [py |-> "str", s |-> s]
PyInt(n) == [py |-> "int", n |-> n]
PyFloat(n, d) == [py |-> "float", n |-> n, d |-> d]
PyBool(b) == [py |-> "bool", b |-> b]
PyNone == [py |-> "None"]
PyList(items) == [py |-> "list", items |-> items]
PyDict(members) == [py |-> "dict", members |-> members]

IsStr(v) == v.py = "str"
IsDict(v) == v.py = "dict"
IsList(v) == v.py = "list"

\* d.get(k, default) and k in d, for a PyDict d
Has(d, k) == k \in DOMAIN d.members
Get(d, k, default) == IF Has(d, k) THEN d.members[k] ELSE default

Min(a, b) == IF a < b THEN a ELSE b

(***************************************************************************)
(* str methods the classifier uses, on sequences of characters             *)
(***************************************************************************)
Whitespace == {" ", "\t", "\n", "\r"}
Digits == {"0", "1", "2", "3", "4", "5", "6", "7", "8", "9"}
UpperCase == <<"A", "B", "C", "D", "E", "F", "G", "H", "I", "J", "K", "L", "M",
               "N", "O", "P", "Q", "R", "S", "T", "U", "V", "W", "X", "Y", "Z">>
LowerCase == <<"a", "b", "c", "d", "e", "f", "g", "h", "i", "j", "k", "l", "m",
               "n", "o", "p", "q", "r", "s", "t", "u", "v", "w", "x", "y", "z">>

LowerChar(c) ==
    IF \E i \in 1..26 : UpperCase[i] = c
    THEN LowerCase[CHOOSE i \in 1..26 : UpperCase[i] = c]
    ELSE c

lower(s) == [i \in 1..Len(s) |-> LowerChar(s[i])]

\* s.strip(): drop the leading and the trailing whitespace
strip(s) ==
    LET keep == {i \in 1..Len(s) : s[i] \notin Whitespace}
    IN  IF keep = {} THEN <<>>
        ELSE SubSeq(s, CHOOSE i \in keep : \A j \in keep : i <= j,
                       CHOOSE i \in keep : \A j \in keep : j <= i)

\* k.isdigit(): at least one character, and digits only
isdigit(k) == Len(k) > 0 /\ \A i \in 1..Len(k) : k[i] \in Digits

\* pat in s
Contains(s, pat) ==
    \E i \in 1..(Len(s) - Len(pat) + 1) : SubSeq(s, i, i + Len(pat) - 1) = pat

BookATraining == <<"b", "o", "o", "k", " ", "a", " ", "t", "r", "a", "i", "n", "i", "n", "g">>
BookTraining == <<"b", "o", "o", "k", " ", "t", "r", "a", "i", "n", "i", "n", "g">>

\* line 137 and line 139, for a ticket record v
IsBookTraining(v) ==
    LET title == lower(strip(Get(v, "cnb_support_ticket_title", PyStr(<<>>)).s))
    IN  \E bt \in {BookATraining, BookTraining} : Contains(title, bt)

\* line 138 and line 142, for a ticket record v
HasNoResponse(v) ==
    LET response_content == Get(v, "responded_content_with_datetime", PyStr(<<>>)).s
    IN  response_content = <<>> \/ strip(response_content) = <<>>

(***************************************************************************)
(* The classifier loop, lines 128-146, over the items of data.  Each item  *)
(* is skipped (line 135), counted in one class, or makes v.get raise       *)
(* AttributeError because its value is not a dict, which ends the loop.    *)
(* The response_delay line 145 attaches to a valid ticket is read only to  *)
(* build the prompt text, which the model does not carry.                  *)
(***************************************************************************)
\* the response looked at before the title
ClassOfResponseFirst(item) ==
    IF ~isdigit(item.k) THEN "skipped"
    ELSE IF ~IsDict(item.v) THEN "raises"
    ELSE IF HasNoResponse(item.v) THEN "unresponded"
    ELSE IF IsBookTraining(item.v) THEN "ignored"
    ELSE "valid"

ClassOf(item) ==
    IF ~isdigit(item.k) THEN "skipped"
    ELSE IF ~IsDict(item.v) THEN "raises"
    ELSE IF IsBookTraining(item.v) THEN "ignored"
    ELSE IF HasNoResponse(item.v) THEN "unresponded"
    ELSE "valid"

ClassifyAll(items) ==
    LET class == [i \in 1..Len(items) |-> ClassOf(items[i])]
        raising == {i \in 1..Len(items) : class[i] = "raises"}
        stop == IF raising = {} THEN Len(items)
                ELSE CHOOSE i \in raising : \A j \in raising : i <= j
        count(cs) == Cardinality({i \in 1..stop : class[i] \in cs})
        kept == SelectSeq([i \in 1..stop |-> i], LAMBDA i : class[i] = "valid")
    IN  [total |-> count({"raises", "ignored", "unresponded", "valid"}),
         book |-> count({"ignored"}),
         noresp |-> count({"unresponded"}),
         valid |-> [n \in 1..Len(kept) |-> items[kept[n]].v],
         raised |-> raising # {}]

(***************************************************************************)
(* Batch partitioning, lines 150 and 180:                                  *)
(*   [seq[i:i + size] for i in range(0, len(seq), size)]                   *)
(***************************************************************************)
batch_size == 50
BATCH_SIZE_OVERALL == 100

\* range(start, stop, step) for a positive step, as a sequence
RECURSIVE Range(_, _, _)
Range(start, stop, step) ==
    IF start >= stop THEN <<>> ELSE <<start>> \o Range(start + step, stop, step)

\* a slice that takes its end for its last index
SliceEndInclusive(seq, i, j) == SubSeq(seq, i + 1, Min(j + 1, Len(seq)))

\* seq[i:j] with 0 <= i: Python clamps the end of a slice to the length
Slice(seq, i, j) == SubSeq(seq, i + 1, Min(j, Len(seq)))

Partition(seq, size) ==
    LET starts == Range(0, Len(seq), size)
    IN  [b \in 1..Len(starts) |-> Slice(seq, starts[b], starts[b] + size)]

(***************************************************************************)
(* Texts.  What the ticket source and the oracle send is a sequence of     *)
(* tokens: Lit(x) is the literal text x (a fence, a tag, a brace, white    *)
(* space, or words that are not JSON), Json(v) the JSON text of the value  *)
(* v, Key(k) a member name with its colon and Value(v) a member value      *)
(* inside an object written out brace by brace.                            *)
(***************************************************************************)
Lit(x) == [tok |-> "lit", text |-> x]
Json(v) == [tok |-> "json", val |-> v]
Key(k) == [tok |-> "key", key |-> k]
Value(v) == [tok |-> "value", val |-> v]

IsLit(t, xs) == t.tok = "lit" /\ t.text \in xs
IsSpace(t) == IsLit(t, Whitespace)

\* text.strip()
TextStrip(text) ==
    LET keep == {i \in 1..Len(text) : ~IsSpace(text[i])}
    IN  IF keep = {} THEN <<>>
        ELSE SubSeq(text, CHOOSE i \in keep : \A j \in keep : i <= j,
                          CHOOSE i \in keep : \A j \in keep : j <= i)

\* text with its leading white space dropped, and with its trailing white space dropped
DropLeadingSpace(text) ==
    LET keep == {i \in 1..Len(text) : ~IsSpace(text[i])}
    IN  IF keep = {} THEN <<>>
        ELSE SubSeq(text, CHOOSE i \in keep : \A j \in keep : i <= j, Len(text))

DropTrailingSpace(text) ==
    LET keep == {i \in 1..Len(text) : ~IsSpace(text[i])}
    IN  IF keep = {} THEN <<>>
        ELSE SubSeq(text, 1, CHOOSE i \in keep : \A j \in keep : j <= i)

\* line 21: an opening fence with json in any case and the white space after it
\* go from the start, a closing fence and the white space before it from the
\* end.  A fence (three backquotes) is written [fence] in a token.
StripFences(t) ==
    LET a == IF Len(t) > 0 /\ IsLit(t[1], {"[fence]json", "[fence]JSON", "[fence]Json"})
             THEN DropLeadingSpace(SubSeq(t, 2, Len(t)))
             ELSE t
    IN  IF Len(a) > 0 /\ IsLit(a[Len(a)], {"[fence]"})
        THEN DropTrailingSpace(SubSeq(a, 1, Len(a) - 1))
        ELSE a

\* lines 20-22
clean_openai_json(raw_text) == TextStrip(StripFences(TextStrip(raw_text)))

\* line 123: a leading <pre> and a trailing </pre> are removed
StripPre(t) ==
    LET a == IF Len(t) > 0 /\ IsLit(t[1], {"<pre>"}) THEN SubSeq(t, 2, Len(t)) ELSE t
    IN  IF Len(a) > 0 /\ IsLit(a[Len(a)], {"</pre>"}) THEN SubSeq(a, 1, Len(a) - 1) ELSE a

\* json.loads(text): one JSON value, white space allowed around it; anything
\* else raises JSONDecodeError
json_loads(text) ==
    LET t == TextStrip(text)
    IN  IF Len(t) = 1 /\ t[1].tok = "json"
        THEN [raised |-> FALSE, value |-> t[1].val]
        ELSE [raised |-> TRUE, value |-> PyNone]

\* lines 25-38: the oracle either answers with a text or raises; call_openai
\* turns the exception into a text and never raises
OpenAIError == Lit("OpenAI Error: ")
call_openai(answer) ==
    IF answer.raised THEN <<OpenAIError>> \o answer.text
    ELSE TextStrip(answer.text)

(***************************************************************************)
(* score_ticket_batch, lines 53-106                                        *)
(***************************************************************************)
\* f"Batch-{batch_index + 1}"
BatchName(batch_index) == PyStr(<<"Batch-", ToString(batch_index + 1)>>)

BatchError(batch_index) ==
    PyDict([ticket_number |-> BatchName(batch_index),
            ticket_score |-> PyStr(<<"Error">>),
            reason |-> PyStr(<<"Failed to parse batch response">>)])

\* lines 55-63: t["cnb_support_ticket_number"] and t["cnb_support_ticket_title"]
\* raise KeyError, outside the try, on a ticket without them
PromptRaises(batch) ==
    \E i \in 1..Len(batch) :
        ~Has(batch[i], "cnb_support_ticket_number") \/ ~Has(batch[i], "cnb_support_ticket_title")

\* lines 97-106, given the text call_openai returned
ParseBatch(raw, batch_index) ==
    LET loaded == json_loads(clean_openai_json(raw))
    IN  IF loaded.raised THEN PyList(<<BatchError(batch_index)>>) ELSE loaded.value

(***************************************************************************)
(* The collection loop body, lines 160-174, for one future's result        *)
(***************************************************************************)
\* a == b for the values compared on line 164; the stored ticket numbers are str
PyEq(a, b) == a.py = b.py /\ a = b

\* line 164: the first ticket of the batch with that number, 0 when there is none
MatchIndex(batch, ticket_number) ==
    LET hits == {i \in 1..Len(batch) :
                    PyEq(batch[i].members["cnb_support_ticket_number"], ticket_number)}
    IN  IF hits = {} THEN 0 ELSE CHOOSE i \in hits : \A j \in hits : i <= j

\* the title and the priority taken from the oracle's result
EnrichedFromResult(ticket_result, matching_ticket) ==
    PyDict([ticket_number |-> Get(ticket_result, "ticket_number", PyNone),
            ticket_title |-> Get(ticket_result, "ticket_title", PyStr(<<>>)),
            ticket_priority |-> Get(ticket_result, "ticket_priority", PyStr(<<>>)),
            ticket_score |-> Get(ticket_result, "ticket_score", PyNone),
            reason |-> Get(ticket_result, "reason", PyNone)])

Enriched(ticket_result, matching_ticket) ==
    PyDict([ticket_number |-> Get(ticket_result, "ticket_number", PyNone),
            ticket_title |-> Get(matching_ticket, "cnb_support_ticket_title", PyStr(<<>>)),
            ticket_priority |-> Get(matching_ticket, "cnb_support_ticket_priority", PyStr(<<>>)),
            ticket_score |-> Get(ticket_result, "ticket_score", PyNone),
            reason |-> Get(ticket_result, "reason", PyNone)])

\* lines 163-174 for one ticket_result that is a dict
Reconcile(ticket_result, batch) ==
    LET ticket_number == Get(ticket_result, "ticket_number", PyNone)
        m == MatchIndex(batch, ticket_number)
    IN  IF m # 0 THEN Enriched(ticket_result, batch[m]) ELSE ticket_result

\* what the for loop of line 162 iterates over: the items of a list, the
\* keys of a dict, the characters of a str; any other value is not iterable
Iterable(result) == result.py \in {"list", "dict", "str"}
IterItems(result) ==
    IF result.py = "list" THEN result.items
    ELSE IF result.py = "dict"
         THEN LET ks == DOMAIN result.members
              IN  IF ks = {} THEN <<>> ELSE <<PyStr(<<CHOOSE k \in ks : TRUE>>)>>
    ELSE [i \in 1..Len(result.s) |-> PyStr(<<result.s[i]>>)]

\* the loop of lines 162-174: the records appended before the loop ends or
\* ticket_result.get raises AttributeError on an item that is not a dict
RECURSIVE CollectFrom(_, _, _, _)
CollectFrom(items, i, batch, acc) ==
    IF i > Len(items) THEN [records |-> acc, raised |-> FALSE]
    ELSE IF ~IsDict(items[i]) THEN [records |-> acc, raised |-> TRUE]
    ELSE CollectFrom(items, i + 1, batch, Append(acc, Reconcile(items[i], batch)))

CollectResult(result, batch) ==
    IF ~Iterable(result) THEN [records |-> <<>>, raised |-> TRUE]
    ELSE CollectFrom(IterItems(result), 1, batch, <<>>)

(***************************************************************************)
(* The overall-score extraction, lines 208-220, and the average, 223-226   *)
(***************************************************************************)
\* re.search(r'\{[\s\S]*?\}', text): from the leftmost "{" that has a "}"
\* after it to the nearest "}"
SearchObject(text) ==
    LET closes(i) == {j \in (i + 1)..Len(text) : IsLit(text[j], {"}"})}
        opens == {i \in 1..Len(text) : IsLit(text[i], {"{"}) /\ closes(i) # {}}
    IN  IF opens = {} THEN [found |-> FALSE, text |-> <<>>]
        ELSE LET i == CHOOSE x \in opens : \A y \in opens : x <= y
                 j == CHOOSE x \in closes(i) : \A y \in closes(i) : x <= y
             IN  [found |-> TRUE, text |-> SubSeq(text, i, j)]

\* json.loads of a text written brace by brace: "{", then members
\* Key Value separated by ",", then "}", white space allowed between tokens;
\* a member given twice keeps its last value.  Anything else raises.
LoadObject(text) ==
    LET t == SelectSeq(text, LAMBDA x : ~IsSpace(x))
        n == Len(t) - 2
        inner == SubSeq(t, 2, Len(t) - 1)
        wellFormed ==
            /\ Len(t) >= 2 /\ IsLit(t[1], {"{"}) /\ IsLit(t[Len(t)], {"}"})
            /\ n = 0 \/ n % 3 = 2
            /\ \A i \in 1..n :
                  CASE i % 3 = 1 -> inner[i].tok = "key"
                    [] i % 3 = 2 -> inner[i].tok = "value"
                    [] OTHER -> IsLit(inner[i], {","})
        keyAt == {i \in 1..n : i % 3 = 1}
        names == {inner[i].key : i \in keyAt}
        last(k) == CHOOSE i \in keyAt : inner[i].key = k
                       /\ \A j \in keyAt : inner[j].key = k => j <= i
    IN  IF wellFormed
        THEN [raised |-> FALSE, value |-> PyDict([k \in names |-> inner[last(k) + 1].val])]
        ELSE [raised |-> TRUE, value |-> PyNone]

DigitSeq == <<"0", "1", "2", "3", "4", "5", "6", "7", "8", "9">>
DigitValue(c) == (CHOOSE i \in 1..10 : DigitSeq[i] = c) - 1

RECURSIVE DecimalValue(_)
DecimalValue(ds) ==
    IF ds = <<>> THEN 0
    ELSE 10 * DecimalValue(SubSeq(ds, 1, Len(ds) - 1)) + DigitValue(ds[Len(ds)])

\* int(s) for a str: white space around, an optional sign, then digits only
IntOfStr(chars) ==
    LET s == strip(chars)
        signed == Len(s) > 0 /\ s[1] \in {"+", "-"}
        ds == IF signed THEN SubSeq(s, 2, Len(s)) ELSE s
    IN  IF isdigit(ds)
        THEN [raised |-> FALSE,
              n |-> IF signed /\ s[1] = "-" THEN 0 - DecimalValue(ds) ELSE DecimalValue(ds)]
        ELSE [raised |-> TRUE, n |-> 0]

\* int(v): an int is itself, a bool is 0 or 1, a float is truncated towards
\* zero (PyFloat(n, 0) is inf or nan, on which int raises), a str is parsed;
\* int raises on None, on a list and on a dict
int(v) ==
    CASE v.py = "int" -> [raised |-> FALSE, n |-> v.n]
      [] v.py = "bool" -> [raised |-> FALSE, n |-> IF v.b THEN 1 ELSE 0]
      [] v.py = "float" ->
            IF v.d = 0 THEN [raised |-> TRUE, n |-> 0]
            ELSE [raised |-> FALSE,
                  n |-> IF v.n >= 0 THEN v.n \div v.d ELSE 0 - ((0 - v.n) \div v.d)]
      [] v.py = "str" -> IntOfStr(v.s)
      [] OTHER -> [raised |-> TRUE, n |-> 0]

\* lines 209-220: the score appended for one batch, given the oracle's text
BatchScore(raw) ==
    LET match == SearchObject(raw)
        loaded == LoadObject(match.text)
    IN  IF ~match.found THEN 0
        ELSE IF loaded.raised THEN 0
        ELSE IF ~Has(loaded.value, "overall_score") THEN 0
        ELSE LET n == int(loaded.value.members["overall_score"])
             IN  IF n.raised THEN 0 ELSE n.n

RECURSIVE sum(_)
sum(xs) == IF xs = <<>> THEN 0 ELSE xs[1] + sum(Tail(xs))

\* a tie rounded up
RoundHalfUp(a, b) == (2 * a + b) \div (2 * b)

\* round(a / b) for b > 0: Python rounds to the nearest integer, a tie to the even one
round(a, b) ==
    LET q == a \div b
        r == a % b
    IN  IF 2 * r < b THEN q
        ELSE IF 2 * r > b THEN q + 1
        ELSE IF q % 2 = 0 THEN q ELSE q + 1

\* lines 223-226
FinalScore(scores) ==
    IF Len(scores) > 0 THEN round(sum(scores), Len(scores)) ELSE 0

\* line 186: t['cnb_support_ticket_title'], t['cnb_support_ticket_content'] and
\* t['responded_content_with_datetime'] raise KeyError on a ticket without them
SummaryRaises(batch) ==
    \E i \in 1..Len(batch) :
        \/ ~Has(batch[i], "cnb_support_ticket_title")
        \/ ~Has(batch[i], "cnb_support_ticket_content")
        \/ ~Has(batch[i], "responded_content_with_datetime")

(***************************************************************************)
(* The inputs: what the request carries, what the ticket source sends and  *)
(* what the oracle answers.  They are the bounded sets the actions draw    *)
(* from.                                                                   *)
(***************************************************************************)
TitleBookATraining == <<"B", "o", "o", "k", " ", "A", " ", "T", "r", "a", "i", "n", "i", "n", "g">>
TitleBookTrainingPadded == <<" ", " ", "b", "o", "o", "k", " ", "t", "r", "a", "i", "n", "i", "n", "g", " ", "n", "o", "w", " ">>
TitleEbookTrainings == <<"E", "b", "o", "o", "k", " ", "t", "r", "a", "i", "n", "i", "n", "g", "s">>
TitleBookTheTraining == <<"B", "o", "o", "k", " ", "t", "h", "e", " ", "t", "r", "a", "i", "n", "i", "n", "g">>
TitleHelp == <<"H", "e", "l", "p">>
ResponseBlank == <<" ", "\n">>
ResponseGiven == <<"0", "5", ".", "0", "1", ".", "2", "4", " ", "d", "o", "n", "e">>
CnbTitleKey == <<"c", "n", "b", "_", "t", "i", "t", "l", "e">>

Ticket(number, title, responded) ==
    PyDict([cnb_support_ticket_number |-> PyStr(<<number>>),
            cnb_support_ticket_title |-> PyStr(title),
            cnb_support_ticket_priority |-> PyStr(<<"High">>),
            cnb_support_ticket_content |-> PyStr(<<"message">>),
            responded_content_with_datetime |-> PyStr(responded)])

\* a ticket without the members named in drop
Without(ticket, drop) ==
    PyDict([k \in DOMAIN ticket.members \ drop |-> ticket.members[k]])

RecordPool ==
    { Ticket("T1", TitleBookATraining, ResponseGiven),
      Ticket("T2", TitleBookTrainingPadded, <<>>),
      Ticket("T3", TitleHelp, <<>>),
      Ticket("T4", TitleHelp, ResponseBlank),
      Ticket("T5", TitleHelp, ResponseGiven),
      Without(Ticket("T6", TitleHelp, ResponseGiven),
              {"cnb_support_ticket_title", "cnb_support_ticket_priority"}),
      Ticket("T7", TitleEbookTrainings, ResponseGiven),
      Without(Ticket("T8", TitleBookTheTraining, <<>>),
              {"responded_content_with_datetime"}) }

KeyPool == { <<"1">>, <<"2", "0">>, CnbTitleKey, <<"1", "a">>, <<>> }

\* the number of items of a record set the classifier is checked on
MaxKeys == 2

Item(k, v) == [k |-> k, v |-> v]

\* every record set of at most MaxKeys items: distinct keys, in any order
RecordSets ==
    UNION { { items \in [1..n -> [k : KeyPool, v : RecordPool]] :
                \A i, j \in 1..n : i # j => items[i].k # items[j].k } : n \in 0..MaxKeys }

\* the decimal digits of a number n > 0, as characters
RECURSIVE DigitsOf(_)
DigitsOf(n) ==
    IF n < 10 THEN <<DigitSeq[n + 1]>>
    ELSE Append(DigitsOf(n \div 10), DigitSeq[(n % 10) + 1])

\* n valid tickets, numbered 1..n
PlainTicket(i) ==
    PyDict([cnb_support_ticket_number |-> PyStr(<<ToString(i)>>),
            cnb_support_ticket_title |-> PyStr(<<"t">>),
            cnb_support_ticket_content |-> PyStr(<<"m">>),
            responded_content_with_datetime |-> PyStr(<<"r">>)])
PlainTickets(n) == [i \in 1..n |-> PlainTicket(i)]
PlainItems(n) == [i \in 1..n |-> Item(DigitsOf(i), PlainTicket(i))]

\* the documents the ticket source sends in the request model
DocNoTickets == <<Item(CnbTitleKey, PyStr(<<"Acme">>))>>
DocExample ==
    << Item(<<"1">>, Ticket("T1", TitleBookATraining, ResponseGiven)),
       Item(<<"2">>, Ticket("T3", TitleHelp, <<>>)),
       Item(<<"3">>, Ticket("T5", TitleHelp, ResponseGiven)) >>
DocTwoValid ==
    << Item(<<"7">>, Ticket("T5", TitleHelp, ResponseGiven)),
       Item(CnbTitleKey, PyStr(<<"Acme">>)),
       Item(<<"8">>, Without(Ticket("T9", TitleBookTheTraining, ResponseGiven),
                             {"cnb_support_ticket_priority"})) >>
DocValueNotARecord ==
    << Item(<<"1">>, Ticket("T5", TitleHelp, ResponseGiven)),
       Item(<<"2">>, PyStr(<<"n/a">>)) >>
DocNoContent ==
    << Item(<<"1">>, Without(Ticket("T5", TitleHelp, ResponseGiven),
                             {"cnb_support_ticket_content"})) >>
DocNoNumber ==
    << Item(<<"1">>, Without(Ticket("T5", TitleHelp, ResponseGiven),
                             {"cnb_support_ticket_number"})) >>

\* a parsed JSON object keeps its members in document order
PyDictItems(items) == [py |-> "dict", items |-> items]

WellFormedDocs ==
    { DocNoTickets, DocExample, DocTwoValid,
      PlainItems(batch_size + 1), PlainItems(BATCH_SIZE_OVERALL + 1) }
Docs == WellFormedDocs \cup { DocValueNotARecord, DocNoContent, DocNoNumber }

\* a record set is well formed when every value under a numeric key is a
\* record with the members the scoring passes read
WellFormed(items) ==
    \A i \in 1..Len(items) :
        isdigit(items[i].k) =>
            /\ IsDict(items[i].v)
            /\ Has(items[i].v, "cnb_support_ticket_number")
            /\ Has(items[i].v, "cnb_support_ticket_title")
            /\ Has(items[i].v, "cnb_support_ticket_content")

\* what requests.post gives: it raises, or returns a status and a text
SourceRaises == [raised |-> TRUE, status_code |-> 0, text |-> <<>>]
SourceReturns(code, text) ==
    [raised |-> FALSE, status_code |-> code, text |-> text]

Payloads ==
    { <<Json(PyDictItems(d))>> : d \in Docs }
    \cup { <<Lit("<pre>"), Json(PyDictItems(DocExample)), Lit("</pre>"), Lit("\n")>>,
           <<Lit("<html>error</html>")>>,
           <<>>,
           <<Json(PyList(<<>>))>> }

SourceOutcomes ==
    { SourceRaises }
    \cup { SourceReturns(st, <<Lit("<html>error</html>")>>) : st \in {201, 404, 500} }
    \cup { SourceReturns(200, p) : p \in Payloads }

\* the values of request.form.get("cnb_id")
CnbIds == { PyNone, PyStr(<<>>), PyStr(<<"42">>) }

\* An oracle answer: the call raises with a message, or returns a text
Raises(message) == [raised |-> TRUE, text |-> message]
Returns(text) == [raised |-> FALSE, text |-> text]

Scored(number, score) ==
    PyDict([ticket_number |-> number, ticket_score |-> PyInt(score),
            reason |-> PyStr(<<"ok">>)])
ScoredWithTitle(number, score) ==
    PyDict([ticket_number |-> number, ticket_score |-> PyInt(score),
            reason |-> PyStr(<<"ok">>),
            ticket_title |-> PyStr(<<"title by the oracle">>),
            ticket_priority |-> PyStr(<<"Low">>)])

NumberOf(t) == t.members["cnb_support_ticket_number"]

\* results for the first and the last ticket of the batch
GoodList(batch) ==
    PyList(<<ScoredWithTitle(NumberOf(batch[1]), 7)>>
           \o IF Len(batch) > 1
              THEN <<PyDict([ticket_number |-> NumberOf(batch[Len(batch)]),
                             ticket_score |-> PyInt(3)])>>
              ELSE <<>>)

\* results that name a ticket of another batch (an unknown ticket when there
\* is no other batch) and no ticket at all
StrayList(b, all) ==
    LET other == IF Len(all) > 1 THEN NumberOf(all[(b % Len(all)) + 1][1])
                 ELSE PyStr(<<"T-unknown">>)
    IN  PyList(<<ScoredWithTitle(other, 5), PyDict([ticket_score |-> PyInt(1)])>>)

\* the answers every batch may get
CoreTicketAnswers(b, all) ==
    { Raises(<<Lit("timed out")>>),
      Returns(<<Json(GoodList(all[b]))>>),
      Returns(<<Json(Scored(NumberOf(all[b][1]), 7))>>),
      Returns(<<Json(StrayList(b, all))>>) }

\* the answers only the first batch may get
RareTicketAnswers(b, all) ==
    { Returns(<<Lit("[fence]JSON"), Lit("\n"), Json(GoodList(all[b])), Lit("\n"),
                Lit("[fence]"), Lit("\n")>>),
      Returns(<<Lit("Here are the scores:"), Lit(" "), Json(GoodList(all[b]))>>),
      Returns(<<>>),
      Returns(<<Json(PyDict(<<>>))>>),
      Returns(<<Json(PyStr(<<>>))>>),
      Returns(<<Json(PyInt(7))>>),
      Returns(<<Json(PyNone)>>),
      Returns(<<Json(PyList(<<>>))>>),
      Returns(<<Json(PyList(<<Scored(NumberOf(all[b][1]), 7), PyInt(1)>>))>>) }

TicketAnswers(b, all) ==
    IF b = 1 THEN CoreTicketAnswers(b, all) \cup RareTicketAnswers(b, all)
    ELSE CoreTicketAnswers(b, all)

ScoreObject(v) == <<Lit("{"), Key("overall_score"), Value(v), Lit("}")>>

CoreOverallAnswers ==
    { Raises(<<Lit("timed out")>>),
      Returns(ScoreObject(PyInt(6))),
      Returns(ScoreObject(PyInt(8))),
      Returns(ScoreObject(PyFloat(15, 2))),
      Returns(ScoreObject(PyInt(15))) }

RareOverallAnswers ==
    { Returns(<<>>),
      Returns(<<Lit("The score is"), Lit(" ")>> \o ScoreObject(PyInt(7))
              \o <<Lit("\n"), Lit("as asked.")>>),
      Returns(<<Lit("{"), Lit(" "), Key("score"), Value(PyInt(5)), Lit("}")>>),
      Returns(<<Lit("{"), Key("overall_score"), Value(PyInt(2)), Lit(","),
                Key("overall_score"), Value(PyInt(4)), Lit("}")>>),
      Returns(<<Lit("{"), Key("detail"), Lit("{"), Key("tone"), Value(PyInt(1)), Lit("}"),
                Lit(","), Key("overall_score"), Value(PyInt(5)), Lit("}")>>),
      Returns(<<Lit("{"), Key("overall_score"), Value(PyInt(5))>>),
      Returns(ScoreObject(PyInt(0 - 3))),
      Returns(ScoreObject(PyFloat(0 - 5, 2))),
      Returns(ScoreObject(PyFloat(1, 0))),
      Returns(ScoreObject(PyStr(<<" ", "9">>))),
      Returns(ScoreObject(PyStr(<<"h", "i", "g", "h">>))),
      Returns(ScoreObject(PyBool(TRUE))),
      Returns(ScoreObject(PyNone)),
      Returns(ScoreObject(PyList(<<PyInt(5)>>))),
      Raises(<<Lit("{"), Lit("rate limit"), Lit("}")>>) }

OverallAnswers(b) ==
    IF b = 1 THEN CoreOverallAnswers \cup RareOverallAnswers ELSE CoreOverallAnswers

(***************************************************************************)
(* The responses of the handler                                            *)
(***************************************************************************)
NoResponse == [status |-> 0, body |-> [pending |-> TRUE]]
ErrorResponse(status, message) == [status |-> status, body |-> [error |-> message]]
\* line 239
UnexpectedError(e) ==
    [status |-> 500, body |-> [error |-> "Unexpected error", details |-> e]]
\* lines 228-236
AggregationResult(final_overall_score) ==
    [status |-> 200,
     body |-> [cnb_id |-> cnb_id,
               client_name |-> cnb_title,
               total_tickets |-> total_tickets,
               book_training_tickets |-> book_training_count,
               tickets_without_response |-> no_response_count,
               overall_score |-> final_overall_score,
               ticket_details |-> ticket_score_data]]

\* a future that executor.submit has not created yet, one whose call runs,
\* one whose call returned a result and one whose call raised
NoFuture == [state |-> "none", raw |-> <<>>, result |-> PyNone, raised |-> FALSE]
RunningFuture == [state |-> "running", raw |-> <<>>, result |-> PyNone, raised |-> FALSE]
FinishedFuture(raw, result) ==
    [state |-> "finished", raw |-> raw, result |-> result, raised |-> FALSE]
FailedFuture == [state |-> "finished", raw |-> <<>>, result |-> PyNone, raised |-> TRUE]

(***************************************************************************)
(* Initial states                                                          *)
(***************************************************************************)
NothingFetched ==
    /\ status_code = 0
    /\ data = <<>>
    /\ cnb_title = PyNone
    /\ source_calls = 0

NothingClassified ==
    /\ total_tickets = 0
    /\ book_training_count = 0
    /\ no_response_count = 0
    /\ valid_tickets = <<>>

NothingScored ==
    /\ batches = <<>>
    /\ submitted = 0
    /\ future = <<>>
    /\ done_order = <<>>
    /\ finished = {}
    /\ yielded = <<>>
    /\ ticket_score_data = <<>>
    /\ overall_batches = <<>>
    /\ overall_scores = <<>>
    /\ overall_raw = <<>>
    /\ exc = "none"
    /\ response = NoResponse
    /\ oracle_calls = 0

\* a request arrives
Init ==
    /\ pc = "start"
    /\ cnb_id \in CnbIds
    /\ NothingFetched
    /\ NothingClassified
    /\ NothingScored

(***************************************************************************)
(* The request thread, analyze_ticket                                      *)
(***************************************************************************)
\* the client id checked against None only
ReceiveUnlessNone ==
    /\ pc = "start"
    /\ IF cnb_id = PyNone
       THEN /\ response' = ErrorResponse(400, "'cnb_id' required.")
            /\ pc' = "done"
       ELSE /\ pc' = "fetch"
            /\ UNCHANGED response
    /\ UNCHANGED <<cnb_id, status_code, data, cnb_title, total_tickets,
                   book_training_count, no_response_count, valid_tickets, batches,
                   submitted, future, done_order, finished, yielded,
                   ticket_score_data, overall_batches, overall_scores, overall_raw,
                   exc, source_calls, oracle_calls>>

\* lines 111-114
Receive ==
    /\ pc = "start"
    /\ IF cnb_id = PyNone \/ cnb_id = PyStr(<<>>)
       THEN /\ response' = ErrorResponse(400, "'cnb_id' required.")
            /\ pc' = "done"
       ELSE /\ pc' = "fetch"
            /\ UNCHANGED response
    /\ UNCHANGED <<cnb_id, status_code, data, cnb_title, total_tickets, book_training_count,
                   no_response_count, valid_tickets, batches, submitted, future,
                   done_order, finished, yielded, ticket_score_data,
                   overall_batches, overall_scores, overall_raw, exc,
                   source_calls, oracle_calls>>

\* data.get("cnb_title", "Unknown Client"), line 126
ClientName(items) ==
    IF \E i \in 1..Len(items) : items[i].k = CnbTitleKey
    THEN items[CHOOSE i \in 1..Len(items) : items[i].k = CnbTitleKey].v
    ELSE PyStr(<<"Unknown Client">>)

\* lines 116-126: the call to the ticket source and the parse of its answer
Fetch ==
    /\ pc = "fetch"
    /\ source_calls' = source_calls + 1
    /\ \E o \in SourceOutcomes :
         LET loaded == json_loads(StripPre(TextStrip(o.text)))
         IN  /\ status_code' = o.status_code
             /\ IF o.raised
                THEN /\ response' = UnexpectedError("ConnectionError")
                     /\ pc' = "done"
                     /\ UNCHANGED <<data, cnb_title>>
                ELSE IF o.status_code # 200
                THEN /\ response' = ErrorResponse(500, "Failed to fetch ticket data")
                     /\ pc' = "done"
                     /\ UNCHANGED <<data, cnb_title>>
                ELSE IF loaded.raised
                THEN /\ response' = UnexpectedError("JSONDecodeError")
                     /\ pc' = "done"
                     /\ UNCHANGED <<data, cnb_title>>
                ELSE IF ~IsDict(loaded.value)
                THEN /\ response' = UnexpectedError("AttributeError")
                     /\ pc' = "done"
                     /\ UNCHANGED <<data, cnb_title>>
                ELSE /\ data' = loaded.value.items
                     /\ cnb_title' = ClientName(loaded.value.items)
                     /\ pc' = "classify"
                     /\ UNCHANGED response
    /\ UNCHANGED <<cnb_id, total_tickets, book_training_count, no_response_count,
                   valid_tickets, batches, submitted, future, done_order, finished,
                   yielded, ticket_score_data, overall_batches, overall_scores,
                   overall_raw, exc, oracle_calls>>

\* lines 128-146
Classify ==
    /\ pc = "classify"
    /\ LET c == ClassifyAll(data)
       IN  /\ total_tickets' = c.total
           /\ book_training_count' = c.book
           /\ no_response_count' = c.noresp
           /\ valid_tickets' = c.valid
           /\ IF c.raised
              THEN /\ response' = UnexpectedError("AttributeError")
                   /\ pc' = "done"
              ELSE /\ pc' = "partition"
                   /\ UNCHANGED response
    /\ UNCHANGED <<cnb_id, status_code, data, cnb_title, batches, submitted, future, done_order,
                   finished, yielded, ticket_score_data, overall_batches,
                   overall_scores, overall_raw, exc, source_calls, oracle_calls>>

\* lines 149-151
MakeBatches ==
    /\ pc = "partition"
    /\ batches' = Partition(valid_tickets, batch_size)
    /\ ticket_score_data' = <<>>
    /\ future' = [b \in 1..Len(batches') |-> NoFuture]
    /\ submitted' = 0
    /\ pc' = "submit"
    /\ UNCHANGED <<cnb_id, status_code, data, cnb_title, total_tickets, book_training_count,
                   no_response_count, valid_tickets, done_order, finished, yielded,
                   overall_batches, overall_scores, overall_raw, exc, response,
                   source_calls, oracle_calls>>

\* lines 154-157: one executor.submit of the dict comprehension
Submit ==
    /\ pc = "submit"
    /\ submitted < Len(batches)
    /\ submitted' = submitted + 1
    /\ future' = [future EXCEPT ![submitted + 1] = RunningFuture]
    /\ UNCHANGED <<pc, cnb_id, status_code, data, cnb_title, total_tickets, book_training_count,
                   no_response_count, valid_tickets, batches, done_order, finished,
                   yielded, ticket_score_data, overall_batches, overall_scores,
                   overall_raw, exc, response, source_calls, oracle_calls>>

(***************************************************************************)
(* A pool thread running score_ticket_batch for batch b, lines 53-106.     *)
(* The pool starts a thread for every submitted call (its default size is  *)
(* above the number of batches reached here), so a submitted call runs.    *)
(* A call to the oracle that never returns is a Worker step never taken.   *)
(***************************************************************************)
Worker(b) ==
    /\ b \in 1..Len(future)
    /\ future[b].state = "running"
    /\ done_order' = Append(done_order, b)
    /\ IF PromptRaises(batches[b])
       THEN /\ future' = [future EXCEPT ![b] = FailedFuture]
            /\ UNCHANGED oracle_calls
       ELSE /\ oracle_calls' = oracle_calls + 1
            /\ \E answer \in TicketAnswers(b, batches) :
                 LET raw == call_openai(answer)
                 IN  future' = [future EXCEPT
                                   ![b] = FinishedFuture(raw, ParseBatch(raw, b - 1))]
    /\ UNCHANGED <<pc, cnb_id, status_code, data, cnb_title, total_tickets, book_training_count,
                   no_response_count, valid_tickets, batches, submitted, finished,
                   yielded, ticket_score_data, overall_batches, overall_scores,
                   overall_raw, exc, response, source_calls>>

(***************************************************************************)
(* as_completed, line 159.  The futures already finished when it is called *)
(* are yielded first, in the order of a set; the others are yielded as     *)
(* they finish.                                                            *)
(***************************************************************************)
AsCompleted ==
    /\ pc = "submit"
    /\ submitted = Len(batches)
    /\ finished' = {b \in 1..Len(future) : future[b].state = "finished"}
    /\ yielded' = <<>>
    /\ pc' = "collect"
    /\ UNCHANGED <<cnb_id, status_code, data, cnb_title, total_tickets, book_training_count,
                   no_response_count, valid_tickets, batches, submitted, future,
                   done_order, ticket_score_data, overall_batches, overall_scores,
                   overall_raw, exc, response, source_calls, oracle_calls>>

Yielded == {yielded[i] : i \in 1..Len(yielded)}

\* any finished future not yielded yet
NextYieldAnyFinished ==
    {b \in 1..Len(future) : future[b].state = "finished" /\ b \notin Yielded}

\* the futures as_completed may yield next
NextYield ==
    IF finished \ Yielded # {} THEN finished \ Yielded
    ELSE LET later == SelectSeq(done_order, LAMBDA b : b \notin Yielded)
         IN  IF later = <<>> THEN {} ELSE {later[1]}

\* lines 160-174 for the future yielded next
Collect ==
    /\ pc = "collect"
    /\ \E b \in NextYield :
         /\ yielded' = Append(yielded, b)
         /\ IF future[b].raised
            THEN /\ exc' = "KeyError"
                 /\ pc' = "shutdown"
                 /\ UNCHANGED ticket_score_data
            ELSE LET c == CollectResult(future[b].result, batches[b])
                 IN  /\ ticket_score_data' = ticket_score_data \o c.records
                     /\ IF c.raised
                        THEN /\ exc' = IF Iterable(future[b].result)
                                       THEN "AttributeError" ELSE "TypeError"
                             /\ pc' = "shutdown"
                        ELSE UNCHANGED <<exc, pc>>
    /\ UNCHANGED <<cnb_id, status_code, data, cnb_title, total_tickets, book_training_count,
                   no_response_count, valid_tickets, batches, submitted, future,
                   done_order, finished, overall_batches, overall_scores,
                   overall_raw, response, source_calls, oracle_calls>>

\* line 153, leaving the with block after an exception: the executor waits
\* for the calls still running, then line 239 answers
Shutdown ==
    /\ pc = "shutdown"
    /\ \A b \in 1..Len(future) : future[b].state = "finished"
    /\ response' = UnexpectedError(exc)
    /\ pc' = "done"
    /\ UNCHANGED <<cnb_id, status_code, data, cnb_title, total_tickets, book_training_count,
                   no_response_count, valid_tickets, batches, submitted, future,
                   done_order, finished, yielded, ticket_score_data,
                   overall_batches, overall_scores, overall_raw, exc,
                   source_calls, oracle_calls>>

\* every future has been yielded: the iterator of line 159 is exhausted and
\* the with block ends, which releases the executor, its futures and the
\* iterator's bookkeeping; then lines 177-181
MakeOverallBatches ==
    /\ pc = "collect"
    /\ Len(yielded) = Len(batches)
    /\ future' = <<>>
    /\ done_order' = <<>>
    /\ finished' = {}
    /\ overall_batches' = Partition(valid_tickets, BATCH_SIZE_OVERALL)
    /\ overall_scores' = <<>>
    /\ pc' = "overall"
    /\ UNCHANGED <<cnb_id, status_code, data, cnb_title, total_tickets, book_training_count,
                   no_response_count, valid_tickets, batches, submitted, yielded,
                   ticket_score_data, overall_raw, exc, response, source_calls,
                   oracle_calls>>

\* lines 183-220, one pass of the loop
OverallBatch ==
    /\ pc = "overall"
    /\ Len(overall_scores) < Len(overall_batches)
    /\ LET b == Len(overall_scores) + 1
       IN  IF SummaryRaises(overall_batches[b])
           THEN /\ response' = UnexpectedError("KeyError")
                /\ pc' = "done"
                /\ UNCHANGED <<overall_scores, overall_raw, oracle_calls>>
           ELSE /\ oracle_calls' = oracle_calls + 1
                /\ \E answer \in OverallAnswers(b) :
                     /\ overall_raw' = call_openai(answer)
                     /\ overall_scores' = Append(overall_scores, BatchScore(overall_raw'))
                /\ UNCHANGED <<response, pc>>
    /\ UNCHANGED <<cnb_id, status_code, data, cnb_title, total_tickets, book_training_count,
                   no_response_count, valid_tickets, batches, submitted, future,
                   done_order, finished, yielded, ticket_score_data,
                   overall_batches, exc, source_calls>>

\* lines 222-236
Finish ==
    /\ pc = "overall"
    /\ Len(overall_scores) = Len(overall_batches)
    /\ response' = AggregationResult(FinalScore(overall_scores))
    /\ pc' = "done"
    /\ UNCHANGED <<cnb_id, status_code, data, cnb_title, total_tickets, book_training_count,
                   no_response_count, valid_tickets, batches, submitted, future,
                   done_order, finished, yielded, ticket_score_data,
                   overall_batches, overall_scores, overall_raw, exc,
                   source_calls, oracle_calls>>

Next ==
    \/ Receive
    \/ Fetch
    \/ Classify
    \/ MakeBatches
    \/ Submit
    \/ \E b \in 1..Len(future) : Worker(b)
    \/ AsCompleted
    \/ Collect
    \/ Shutdown
    \/ MakeOverallBatches
    \/ OverallBatch
    \/ Finish

Spec == Init /\ [][Next]_vars

(***************************************************************************)
(* The classifier on every record set of at most MaxKeys items: the        *)
(* request stands at line 128 with the record set parsed.                  *)
(***************************************************************************)
InitClassify ==
    /\ pc = "classify"
    /\ cnb_id = PyStr(<<"42">>)
    /\ status_code = 200
    /\ data \in RecordSets
    /\ cnb_title = ClientName(data)
    /\ source_calls = 1
    /\ NothingClassified
    /\ NothingScored

SpecClassify == InitClassify /\ [][Classify]_vars

(***************************************************************************)
(* The two partitionings on every number of valid tickets up to            *)
(* MaxTickets: the request stands at line 149 with the tickets classified, *)
(* or at the end of the with block, every batch answered with [].          *)
(***************************************************************************)
MaxTickets == 205

InitPartition ==
    /\ cnb_id = PyStr(<<"42">>)
    /\ status_code = 200
    /\ source_calls = 1
    /\ cnb_title = PyStr(<<"Unknown Client">>)
    /\ \E n \in 0..MaxTickets :
         /\ data = PlainItems(n)
         /\ total_tickets = n
         /\ valid_tickets = PlainTickets(n)
    /\ book_training_count = 0
    /\ no_response_count = 0
    /\ ticket_score_data = <<>>
    /\ overall_batches = <<>>
    /\ overall_scores = <<>>
    /\ overall_raw = <<>>
    /\ exc = "none"
    /\ response = NoResponse
    /\ finished = {}
    /\ \/ /\ pc = "partition"
          /\ batches = <<>>
          /\ submitted = 0
          /\ future = <<>>
          /\ done_order = <<>>
          /\ yielded = <<>>
          /\ oracle_calls = 0
       \/ /\ pc = "collect"
          /\ batches = Partition(valid_tickets, batch_size)
          /\ submitted = Len(batches)
          /\ future = [b \in 1..Len(batches) |->
                          FinishedFuture(<<Json(PyList(<<>>))>>, PyList(<<>>))]
          /\ done_order = [b \in 1..Len(batches) |-> b]
          /\ yielded = [b \in 1..Len(batches) |-> b]
          /\ oracle_calls = Len(batches)

SpecPartition == InitPartition /\ [][MakeBatches \/ MakeOverallBatches]_vars

(***************************************************************************)
(* C3  After classification total == ignored + unresponded + |valid|:      *)
(* every record under a purely numeric key is counted in exactly one class *)
(* (ignored when its trimmed, lower-cased title contains "book a training" *)
(* or "book training", decided before the response is looked at; else      *)
(* unresponded when its response content is empty or blank; else valid),   *)
(* and a record under any other key is counted nowhere.                    *)
(* The class each record of RecordPool belongs to is written out by hand.  *)
(***************************************************************************)
ExpectedClass(v) ==
    LET number == IF Has(v, "cnb_support_ticket_number")
                  THEN v.members["cnb_support_ticket_number"].s[1] ELSE "?"
    IN  CASE number \in {"T1", "T2", "T7"} -> "ignored"
          [] number \in {"T3", "T4", "T8"} -> "unresponded"
          [] number \in {"T5", "T6"} -> "valid"

NumericKeys == {i \in 1..Len(data) : isdigit(data[i].k)}
Expected(class) == {i \in NumericKeys : ExpectedClass(data[i].v) = class}

C3_ClassifierCounts ==
    pc = "partition" =>
        /\ total_tickets = book_training_count + no_response_count + Len(valid_tickets)
        /\ total_tickets = Cardinality(NumericKeys)
        /\ book_training_count = Cardinality(Expected("ignored"))
        /\ no_response_count = Cardinality(Expected("unresponded"))
        /\ Len(valid_tickets) = Cardinality(Expected("valid"))
        /\ \A n \in 1..Len(valid_tickets) :
              \E i \in Expected("valid") :
                 /\ valid_tickets[n] = data[i].v
                 /\ Cardinality({j \in Expected("valid") : j < i}) = n - 1
        /\ NumericKeys = {i \in 1..Len(data) :
                            data[i].k \in {<<"1">>, <<"2", "0">>}}

\* a record set with a key that is not numeric and, under a numeric key, a
\* book-training ticket without a response: counted once, as ignored
C3_Witness ==
    /\ pc = "partition"
    /\ Len(data) = 2
    /\ \E i, j \in 1..2 :
          /\ ~isdigit(data[i].k)
          /\ isdigit(data[j].k)
          /\ data[j].v = Ticket("T2", TitleBookTrainingPadded, <<>>)
    /\ total_tickets = 1
    /\ book_training_count = 1
    /\ no_response_count = 0
    /\ valid_tickets = <<>>

(***************************************************************************)
(* C4  Both partitionings (batch size 50 and 100) cut the valid tickets    *)
(* into contiguous batches of 1 to size tickets whose concatenation, in    *)
(* batch order, is the valid-ticket sequence; no ticket gives no batch and *)
(* fewer tickets than the size give one short batch.                       *)
(***************************************************************************)
RECURSIVE Concat(_)
Concat(seqs) == IF seqs = <<>> THEN <<>> ELSE seqs[1] \o Concat(Tail(seqs))

IsPartitioning(bs, seq, size) ==
    /\ \A b \in 1..Len(bs) : Len(bs[b]) >= 1 /\ Len(bs[b]) <= size
    /\ Concat(bs) = seq
    /\ Len(seq) = 0 => Len(bs) = 0
    /\ (Len(seq) > 0 /\ Len(seq) < size) => (Len(bs) = 1 /\ Len(bs[1]) = Len(seq))

C4_Partitioning ==
    /\ pc = "submit" => IsPartitioning(batches, valid_tickets, 50)
    /\ pc = "overall" => IsPartitioning(overall_batches, valid_tickets, 100)

\* 201 tickets: five per-ticket batches were made, and three overall-score
\* batches, the last of them holding the one ticket left
C4_Witness ==
    /\ pc = "overall"
    /\ Len(valid_tickets) = 201
    /\ Len(batches) = 5
    /\ Len(overall_batches) = 3
    /\ overall_batches[3] = <<valid_tickets[201]>>

(***************************************************************************)
(* Definitions the claims about the dispatch share                         *)
(***************************************************************************)
\* the oracle's call for a batch failed: it raised, or its text is not
\* parseable JSON, or the parsed value is not an array
OracleFailed(raw) ==
    LET loaded == json_loads(clean_openai_json(raw))
    IN  \/ Len(raw) > 0 /\ raw[1] = OpenAIError
        \/ loaded.raised
        \/ ~IsList(loaded.value)

\* the records the collection loop appends for batch b
Block(b) == CollectResult(future[b].result, batches[b]).records

Position(b) == CHOOSE i \in 1..Len(done_order) : done_order[i] = b

InPool == pc \in {"collect", "shutdown"}

(***************************************************************************)
(* C1  A per-ticket batch whose oracle call fails (the call raises, the    *)
(* text is not parseable JSON, or the parsed value is not an array)        *)
(* contributes exactly the one record Batch-<i+1> / Error / Failed to      *)
(* parse batch response, and every other batch contributes what it would   *)
(* have contributed without the failure.                                   *)
(***************************************************************************)
ExpectedBlock(b) ==
    IF OracleFailed(future[b].raw) THEN <<BatchError(b - 1)>> ELSE Block(b)

C1_FailedBatchGivesErrorRecord ==
    /\ \A b \in 1..Len(future) :
          (future[b].state = "finished" /\ ~future[b].raised
              /\ OracleFailed(future[b].raw))
          => future[b].result = PyList(<<BatchError(b - 1)>>)
    /\ (InPool /\ \A i \in 1..Len(yielded) : ~future[yielded[i]].raised)
          => ticket_score_data = Concat([i \in 1..Len(yielded) |-> ExpectedBlock(yielded[i])])

(***************************************************************************)
(* C2  With the client id present and a well-formed record set fetched, no *)
(* oracle behaviour in either scoring pass makes the request fail: it ends *)
(* with an AggregationResult.                                              *)
(***************************************************************************)
FetchedWellFormed ==
    /\ cnb_id \notin {PyNone, PyStr(<<>>)}
    /\ status_code = 200
    /\ cnb_title # PyNone
    /\ WellFormed(data)

C2_OracleNeverFailsRequest ==
    (pc = "done" /\ FetchedWellFormed) =>
        /\ response.status = 200
        /\ DOMAIN response.body = {"cnb_id", "client_name", "total_tickets",
                                   "book_training_tickets", "tickets_without_response",
                                   "overall_score", "ticket_details"}

(***************************************************************************)
(* C5  Reconciliation: a result whose ticket_number is the number of a     *)
(* ticket of the batch it was returned for is emitted with that ticket's   *)
(* stored title and priority and the oracle's score and reason, never with *)
(* a title or priority the oracle supplied; any other result (one naming a *)
(* ticket of another batch, the batch-error record) is emitted verbatim.   *)
(***************************************************************************)
ResultItems(b) == IF IsList(future[b].result) THEN future[b].result.items ELSE <<>>

RECURSIVE BlockStart(_)
BlockStart(i) ==
    IF i = 1 THEN 0 ELSE BlockStart(i - 1) + Len(ResultItems(yielded[i - 1]))

Member(d, k, default) == IF k \in DOMAIN d.members THEN d.members[k] ELSE default

Reconciled(rec, r, batch) ==
    LET number == Member(r, "ticket_number", PyNone)
        owners == {t \in 1..Len(batch) :
                     /\ number.py = "str"
                     /\ batch[t].members.cnb_support_ticket_number = number}
    IN  IF owners = {} THEN rec = r
        ELSE LET t == CHOOSE x \in owners : \A y \in owners : x <= y
             IN  /\ DOMAIN rec.members = {"ticket_number", "ticket_title",
                                          "ticket_priority", "ticket_score", "reason"}
                 /\ rec.members.ticket_number = number
                 /\ rec.members.ticket_title = batch[t].members.cnb_support_ticket_title
                 /\ rec.members.ticket_priority =
                        Member(batch[t], "cnb_support_ticket_priority", PyStr(<<>>))
                 /\ rec.members.ticket_score = Member(r, "ticket_score", PyNone)
                 /\ rec.members.reason = Member(r, "reason", PyNone)

C5_Reconciliation ==
    /\ (pc = "collect" /\ exc = "none") =>
          \A i \in 1..Len(yielded) :
             LET b == yielded[i]
                 items == ResultItems(b)
             IN  /\ BlockStart(i) + Len(items) <= Len(ticket_score_data)
                 /\ \A k \in 1..Len(items) :
                       Reconciled(ticket_score_data[BlockStart(i) + k], items[k], batches[b])
    /\ (pc = "done" /\ response.status = 200) =>
          response.body.ticket_details = ticket_score_data

\* two batches collected: one answered with results for its own tickets and
\* a title by the oracle, the other with a result naming a ticket of the first
C5_Witness ==
    /\ pc = "collect"
    /\ exc = "none"
    /\ Len(batches) = 2
    /\ yielded = <<2, 1>>
    /\ future[1].result = GoodList(batches[1])
    /\ future[2].result = StrayList(2, batches)
    /\ ticket_score_data[1] = ScoredWithTitle(NumberOf(batches[1][1]), 5)
    /\ ticket_score_data[3].members.ticket_title = PyStr(<<"t">>)

(***************************************************************************)
(* Definitions the claims about the overall score share                    *)
(***************************************************************************)
\* the value the oracle's text gives overall_score, when it gives one
ScoreValue(raw) ==
    LET match == SearchObject(raw)
        loaded == LoadObject(match.text)
    IN  IF match.found /\ ~loaded.raised /\ Has(loaded.value, "overall_score")
        THEN [given |-> TRUE, value |-> loaded.value.members["overall_score"]]
        ELSE [given |-> FALSE, value |-> PyNone]

LastScore == overall_scores[Len(overall_scores)]

Answered == pc = "done" /\ response.status = 200

\* f is the integer nearest to the mean of the scores, the even one of two
\* equally near; 0 when there is no score
IsRoundedMean(f, scores) ==
    LET n == Len(scores)
        total == sum(scores)
        gap == IF total >= f * n THEN total - f * n ELSE f * n - total
    IN  IF n = 0 THEN f = 0
        ELSE /\ 2 * gap <= n
             /\ 2 * gap = n => f % 2 = 0

OneScorePerBatch ==
    /\ pc = "overall" => Len(overall_scores) <= Len(overall_batches)
    /\ Answered =>
          /\ Len(overall_scores) = Len(overall_batches)
          /\ IsRoundedMean(response.body.overall_score, overall_scores)
          /\ valid_tickets = <<>> => response.body.overall_score = 0
          /\ overall_scores = <<6, 8>> => response.body.overall_score = 7

(***************************************************************************)
(* C6, as claimed  One score is recorded per overall-score batch; it is 0  *)
(* whenever the oracle's text holds no brace-delimited object, the object  *)
(* lacks overall_score, or the value is not an integer; the final score is *)
(* round(mean of the recorded scores), 0 without valid tickets, and 7 for  *)
(* the two answers 6 and 8.                                                *)
(***************************************************************************)
C6_ZeroUnlessInteger ==
    /\ OneScorePerBatch
    /\ (pc \in {"overall", "done"} /\ Len(overall_scores) > 0) =>
          LET given == ScoreValue(overall_raw)
          IN  (~given.given \/ given.value.py # "int") => LastScore = 0

(***************************************************************************)
(* C6, as amended  One score is recorded per overall-score batch.  It is 0 *)
(* when the text holds no brace-delimited object, the matched text is not  *)
(* a JSON object, the object lacks overall_score, or int() raises on the   *)
(* value (null, an array, a str that is not an integer literal, inf);      *)
(* otherwise it is int(value): an integer itself, a fractional number      *)
(* truncated towards zero, a boolean 0 or 1, a str of digits its number.   *)
(* The final score is the mean rounded to the nearest integer, a tie to    *)
(* the even one; 0 without valid tickets; 7 for the answers 6 and 8.       *)
(***************************************************************************)
Truncated(n, d) ==
    CHOOSE t \in -100..100 :
        IF n >= 0 THEN t * d <= n /\ n < (t + 1) * d
        ELSE (t - 1) * d < n /\ n <= t * d

Coerced(v) ==
    CASE v.py = "int" -> v.n
      [] v.py = "bool" -> IF v.b THEN 1 ELSE 0
      [] v.py = "float" -> IF v.d = 0 THEN 0 ELSE Truncated(v.n, v.d)
      [] v.py = "str" -> IF v.s = <<" ", "9">> THEN 9 ELSE 0
      [] OTHER -> 0

C6_ScoreIsCoercedValue ==
    /\ OneScorePerBatch
    /\ (pc \in {"overall", "done"} /\ Len(overall_scores) > 0) =>
          LET given == ScoreValue(overall_raw)
          IN  /\ LastScore = IF given.given THEN Coerced(given.value) ELSE 0
              /\ overall_raw = <<>> => LastScore = 0
              /\ (Len(overall_raw) > 0 /\ overall_raw[1] = OpenAIError) => LastScore = 0
              /\ overall_raw = <<Lit("{"), Key("overall_score"), Value(PyInt(5))>>
                    => LastScore = 0
              /\ (\E i \in 1..Len(overall_raw) : overall_raw[i] = Key("detail"))
                    => LastScore = 0
              /\ (\E i \in 1..Len(overall_raw) : overall_raw[i] = Key("score"))
                    => LastScore = 0
              /\ (\E i \in 1..Len(overall_raw) : overall_raw[i] = Lit("as asked."))
                    => LastScore = 7
              /\ overall_raw = ScoreObject(PyFloat(15, 2)) => LastScore = 7
              /\ overall_raw = ScoreObject(PyFloat(0 - 5, 2)) => LastScore = 0 - 2

\* two batches answered 6 and 7.5: 7 is recorded for the second, and the
\* final score is round(6.5) = 6
C6_Witness ==
    /\ Answered
    /\ overall_raw = ScoreObject(PyFloat(15, 2))
    /\ overall_scores = <<6, 7>>
    /\ response.body.overall_score = 6

(***************************************************************************)
(* C7  Every recorded overall-score batch score is an integer in 0..10,    *)
(* whatever the oracle answers, and so is the final overall score.         *)
(***************************************************************************)
C7_ScoresInRange ==
    /\ \A i \in 1..Len(overall_scores) : overall_scores[i] \in 0..10
    /\ Answered => response.body.overall_score \in 0..10

(***************************************************************************)
(* C8, as claimed  A missing or empty client id ends the request with an   *)
(* input error, neither the ticket source nor the oracle called; a         *)
(* non-success status or a payload that cannot be parsed as the keyed      *)
(* record set ends it reporting a retrieval failure, the oracle not        *)
(* called.                                                                 *)
(***************************************************************************)
NoClientId == cnb_id \in {PyNone, PyStr(<<>>)}
NonSuccessStatus == source_calls = 1 /\ status_code \notin {0} \cup (200..299)
PayloadNotParsed == source_calls = 1 /\ status_code = 200 /\ cnb_title = PyNone

InputErrorStops ==
    NoClientId =>
        /\ source_calls = 0
        /\ oracle_calls = 0
        /\ pc \in {"start", "done"}
        /\ pc = "done" => response = ErrorResponse(400, "'cnb_id' required.")

RetrievalFailure == ErrorResponse(500, "Failed to fetch ticket data")

BlocksInCollectionOrder ==
    /\ InPool =>
          /\ \A i \in 1..Len(yielded) : future[yielded[i]].state = "finished"
          /\ \A i, j \in 1..Len(yielded) : i # j => yielded[i] # yielded[j]
          /\ (\A i \in 1..Len(yielded) : ~future[yielded[i]].raised) =>
                ticket_score_data = Concat([i \in 1..Len(yielded) |-> Block(yielded[i])])
    /\ pc = "overall" => Yielded = 1..Len(batches) /\ Len(yielded) = Len(batches)

AllCollected == Yielded = 1..Len(batches) /\ Len(yielded) = Len(batches)

(***************************************************************************)
(* C10  Progress.  When every oracle call returns, every per-ticket batch  *)
(* is collected, the overall-score pass runs only after all of them have   *)
(* been collected, and the request returns; the request does not return    *)
(* while a per-ticket call has not returned.  Stated on the runs that      *)
(* end: the overall-score pass starts, and a request whose batches were    *)
(* dispatched has returned, only with every call returned and every batch  *)
(* collected.                                                              *)
(***************************************************************************)
C10_ReturnsWithEveryBatchCollected ==
    /\ pc = "overall" => AllCollected
    /\ pc = "done" => \A b \in 1..Len(future) : future[b].state = "finished"
    /\ (pc = "done" /\ Len(batches) > 0) => AllCollected

====
